---- MODULE Spec2Model ----
(***************************************************************************)
(* Model of multistate_kernel/util.py: FrozenOrderedDict, StateData,       *)
(* ScikitLearnData and MultiStateData with its factories and queries.      *)
(*                                                                         *)
(* numpy arrays are objects on a heap (an address is an index of `heap`),  *)
(* so that an in-place operation on an array is seen through every         *)
(* reference to it.  Array elements are exact real numbers of the form     *)
(* (n/d)*sqrt(r), which is closed under the operations the code performs   *)
(* (a standard deviation of rationals, division and multiplication by it); *)
(* floating-point rounding is not modelled.                                *)
(*                                                                         *)
(* What the model takes from the libraries the module is written against:  *)
(* arrays are float arrays (y /= norm is defined on them); np.hstack takes *)
(* the generator it is given and returns a new array; np.block of an empty *)
(* list is a ValueError; a boolean-mask selection is a copy; the hash of   *)
(* an object without __hash__ of its own is its identity.  The x, y and    *)
(* err of a record or of a flat triple are of one length (the module does  *)
(* not check it and the model does not vary it).                           *)
(***************************************************************************)
EXTENDS Integers, Sequences, FiniteSets, TLC

(* ------------------------------------------------------------------ *)
(* Bounds of the model                                                 *)
(* ------------------------------------------------------------------ *)
MaxObs == 3      \* observations in a caller's per-state dataset, all states together
MaxRows == 2     \* rows of a caller's flat triple
MaxCoords == 2   \* length of the coordinate sequence given to sample
MaxCalls == 2    \* factory calls in one run

(* ------------------------------------------------------------------ *)
(* Exact arithmetic on the values held by float arrays                 *)
(* ------------------------------------------------------------------ *)
Abs(a) == IF a < 0 THEN -a ELSE a

RECURSIVE Gcd(_, _)
Gcd(a, b) == IF b = 0 THEN a ELSE Gcd(b, a % b)

\* The largest k with k*k dividing r, searched from the factor k upwards.
RECURSIVE SquarePart(_, _)
SquarePart(r, k) ==
    IF k * k > r THEN 1
    ELSE IF r % (k * k) = 0 THEN k * SquarePart(r \div (k * k), k)
    ELSE SquarePart(r, k + 1)

\* The number (n/d)*sqrt(r) in canonical form: d > 0, n/d in lowest terms,
\* r squarefree; zero is 0/1*sqrt(1).  d = 0 stands for nan/inf.
Float(n, d, r) ==
    IF d = 0 THEN [n |-> 0, d |-> 0, r |-> 1]
    ELSE IF n = 0 \/ r = 0 THEN [n |-> 0, d |-> 1, r |-> 1]
    ELSE LET k  == SquarePart(r, 2)
             nn == (IF d < 0 THEN -n ELSE n) * k
             dd == Abs(d)
             g  == Gcd(Abs(nn), dd)
         IN  [n |-> nn \div g, d |-> dd \div g, r |-> r \div (k * k)]

FloatOfInt(i) == Float(i, 1, 1)

IsZero(a) == a.d # 0 /\ a.n = 0

IsPositive(a) == a.d # 0 /\ a.n > 0

\* a * b
FMul(a, b) == Float(a.n * b.n, a.d * b.d, a.r * b.r)

\* a / b (true division; a zero divisor gives nan/inf)
FDiv(a, b) ==
    IF b.d = 0 \/ b.n = 0 THEN Float(0, 0, 1)
    ELSE Float(a.n * b.d * b.n, a.d * b.n * b.n * b.r, a.r * b.r)

\* a + b, for operands over the same radical (all sums the code takes are
\* sums of rationals)
FAdd(a, b) ==
    IF a.d = 0 \/ b.d = 0 THEN Float(0, 0, 1)
    ELSE IF a.n = 0 THEN b
    ELSE IF b.n = 0 THEN a
    ELSE Float(a.n * b.d + b.n * a.d, a.d * b.d, a.r)

FNeg(a) == [a EXCEPT !.n = -a.n]

\* sqrt(a), for a rational a >= 0
FSqrt(a) == IF a.d = 0 THEN a ELSE Float(1, a.d, a.n * a.d)

\* a < b, by sign and squares
FSquareLess(a, b) == a.n * a.n * a.r * b.d * b.d < b.n * b.n * b.r * a.d * a.d

FLess(a, b) ==
    IF a.n < 0 /\ b.n >= 0 THEN TRUE
    ELSE IF a.n >= 0 /\ b.n < 0 THEN FALSE
    ELSE IF a.n >= 0 THEN FSquareLess(a, b)
    ELSE FSquareLess(b, a)

(* ------------------------------------------------------------------ *)
(* Sequences                                                           *)
(* ------------------------------------------------------------------ *)
RECURSIVE Concat(_)
Concat(seqs) == IF seqs = <<>> THEN <<>> ELSE Head(seqs) \o Concat(Tail(seqs))

RECURSIVE FSum(_)
FSum(a) == IF a = <<>> THEN FloatOfInt(0) ELSE FAdd(Head(a), FSum(Tail(a)))

RECURSIVE SeqsUpTo(_, _)
SeqsUpTo(S, n) ==
    IF n = 0 THEN {<<>>}
    ELSE LET shorter == SeqsUpTo(S, n - 1)
         IN  shorter \cup {Append(s, e) : s \in {t \in shorter : Len(t) = n - 1}, e \in S}

(* ------------------------------------------------------------------ *)
(* numpy: arrays live on the heap; an address is an index of the heap  *)
(* ------------------------------------------------------------------ *)
\* A newly created array: the heap grown by it, and its address.
Alloc(h, arr) == [heap |-> Append(h, arr), addr |-> Len(h) + 1]

\* a[mask], a boolean-mask selection (a copy, in order)
RECURSIVE MaskSelect(_, _)
MaskSelect(a, mask) ==
    IF a = <<>> THEN <<>>
    ELSE (IF Head(mask) THEN <<Head(a)>> ELSE <<>>) \o MaskSelect(Tail(a), Tail(mask))

\* a * c, elementwise (a new array)
Times(a, c) == [j \in 1..Len(a) |-> FMul(a[j], c)]

\* a / c, elementwise
Divide(a, c) == [j \in 1..Len(a) |-> FDiv(a[j], c)]

\* column c of a 2-D array: a[:, c-1]
Column(a, c) == [j \in 1..Len(a) |-> a[j][c]]

\* np.full_like(x, i): an array shaped like x, filled with i
FullLike(x, i) == [j \in 1..Len(x) |-> FloatOfInt(i)]

\* A variant of Hstack that hands back a single array itself instead of a
\* copy of it (InputsUnchanged depends on the copy).
HstackAlias(h, addrs) ==
    IF addrs = <<>> THEN [raised |-> "ValueError", heap |-> h, addr |-> 0]
    ELSE IF Len(addrs) = 1 THEN [raised |-> "None", heap |-> h, addr |-> addrs[1]]
    ELSE [raised |-> "None"] @@ Alloc(h, Concat([i \in 1..Len(addrs) |-> h[addrs[i]]]))

\* np.hstack on 1-D arrays: always a new array holding the concatenation;
\* an empty sequence of arrays is an error.
Hstack(h, addrs) ==
    IF addrs = <<>> THEN [raised |-> "ValueError", heap |-> h, addr |-> 0]
    ELSE [raised |-> "None"] @@ Alloc(h, Concat([i \in 1..Len(addrs) |-> h[addrs[i]]]))

\* y.std(): sqrt(mean(|y - mean(y)|^2))
Mean(a) == FDiv(FSum(a), FloatOfInt(Len(a)))

Std(a) ==
    LET m  == Mean(a)
        sq == [j \in 1..Len(a) |-> FMul(FAdd(a[j], FNeg(m)), FAdd(a[j], FNeg(m)))]
    IN  FSqrt(Mean(sq))

\* np.unique: the sorted distinct values
RECURSIVE SortedSeq(_)
SortedSeq(S) ==
    IF S = {} THEN <<>>
    ELSE LET least == CHOOSE a \in S : \A b \in S \ {a} : FLess(a, b)
         IN  <<least>> \o SortedSeq(S \ {least})

Unique(a) == SortedSeq({a[j] : j \in 1..Len(a)})

\* Python's `a or b` on numbers: a when a is truthy (nonzero), else b
Or(a, b) == IF IsZero(a) THEN b ELSE a

(* ------------------------------------------------------------------ *)
(* State keys: strings given by the caller, or the floats np.unique    *)
(* derives from the index column                                       *)
(* ------------------------------------------------------------------ *)
StrKey(s) == [kind |-> "str", s |-> s, v |-> FloatOfInt(0)]

FloatKey(v) == [kind |-> "float", s |-> "", v |-> v]

(* ------------------------------------------------------------------ *)
(* FrozenOrderedDict                                                   *)
(* ------------------------------------------------------------------ *)
\* OrderedDict(pairs): a key keeps the position of its first occurrence
\* and the value of its last.
RECURSIVE OrderedDict(_)
OrderedDict(pairs) ==
    IF pairs = <<>> THEN <<>>
    ELSE LET n    == Len(pairs)
             init == OrderedDict(SubSeq(pairs, 1, n - 1))
             p    == pairs[n]
             pos  == {i \in 1..Len(init) : init[i].key = p.key}
         IN  IF pos = {} THEN Append(init, p)
             ELSE [i \in 1..Len(init) |-> IF i \in pos THEN p ELSE init[i]]

\* __init__: the entries, and no hash yet (<<>> is None)
FrozenOrderedDictInit(pairs) == [_d |-> OrderedDict(pairs), _hash |-> <<>>]

\* iteration (__iter__) gives the keys in insertion order
Keys(fod) == [i \in 1..Len(fod._d) |-> fod._d[i].key]

Values(fod) == [i \in 1..Len(fod._d) |-> fod._d[i].value]

\* __getitem__: defined on the keys present
GetItem(fod, key) == fod._d[CHOOSE i \in 1..Len(fod._d) : fod._d[i].key = key].value

(* ------------------------------------------------------------------ *)
(* MultiStateData                                                      *)
(* ------------------------------------------------------------------ *)
\* StateData(x, y, err) and ScikitLearnData(x, y, err, norm): named tuples
\* of references to arrays (and the number norm)
StateData(x, y, err) == [x |-> x, y |-> y, err |-> err]

ScikitLearnData(x, y, err, norm) == [x |-> x, y |-> y, err |-> err, norm |-> norm]

\* No instance (the caller holds none yet).
NoInstance ==
    [_dict |-> 0, _scikit |-> ScikitLearnData(0, 0, 0, FloatOfInt(0)),
     _keys_tuple |-> <<>>, _state_idx_dict |-> <<>>]

\* __init__(state_data_odict, scikit_learn_data); m is the table of
\* FrozenOrderedDict objects and dref the reference to the named map.
MultiStateDataInit(m, dref, scikit) ==
    LET keys == Keys(m[dref])
    IN  [_dict |-> dref,
         _scikit |-> scikit,
         _keys_tuple |-> keys,
         _state_idx_dict |->
             [k \in {keys[i] : i \in 1..Len(keys)} |->
                 (CHOOSE i \in 1..Len(keys) : keys[i] = k) - 1]]

\* The outcome of a factory: the exception raised ("None": it returned), and
\* the heap, the maps and the instance after it.
Returned(h, m, inst) == [raised |-> "None", heap |-> h, maps |-> m, inst |-> inst]

Raised(exc, h, m) == [raised |-> exc, heap |-> h, maps |-> m, inst |-> NoInstance]

\* A variant of BlockRow that counts the states from 1 (SampleLayoutOfStates
\* depends on the index column).
BlockRowShifted(i, x) == [j \in 1..Len(x) |-> <<FullLike(x, i + 1)[j], x[j]>>]

\* The block of rows for the state at 0-based position i, with coordinates x:
\* [np.full_like(x, i).reshape(-1,1), np.asarray(x).reshape(-1,1)]
BlockRow(i, x) == [j \in 1..Len(x) |-> <<FullLike(x, i)[j], x[j]>>]

\* _x_2d_from_1d(x_1d_): np.block of one block row per state; np.block of an
\* empty list is an error.
X2dFrom1d(xs) ==
    IF xs = <<>> THEN [raised |-> "ValueError", value |-> <<>>]
    ELSE [raised |-> "None",
          value |-> Concat([i \in 1..Len(xs) |-> BlockRow(i - 1, xs[i])])]

\* A variant of Norm that tries y[0] before the standard deviation
\* (NormFallbackChain depends on the order of the chain).
NormFirstValue(y) == Or(Or(y[1], Std(y)), FloatOfInt(1))

\* norm = y.std() or y[0] or 1
Norm(y) == Or(Or(Std(y), y[1]), FloatOfInt(1))

\* y /= norm: the array at addr is divided in place
DivideInPlace(h, addr, norm) == [h EXCEPT ![addr] = Divide(h[addr], norm)]

\* from_state_data(pairs): pairs of a key and a StateData.  The arrays the
\* call creates are x, then y, then err; the temporary np.hstack makes for
\* err is dropped.  A call that raises leaves nothing behind.
FromStateData(h, m, pairs) ==
    LET d  == FrozenOrderedDictInit(pairs)
        vs == Values(d)
        x  == X2dFrom1d([i \in 1..Len(vs) |-> h[vs[i].x]])
    IN  IF x.raised # "None" THEN Raised(x.raised, h, m)
        ELSE
        LET hx == Alloc(h, x.value)
            y  == Hstack(hx.heap, [i \in 1..Len(vs) |-> vs[i].y])
        IN  IF y.raised # "None" THEN Raised(y.raised, h, m)
            ELSE IF Len(y.heap[y.addr]) = 0 THEN Raised("ValueError", h, m)
            ELSE
            LET norm == Norm(y.heap[y.addr])
                hy   == DivideInPlace(y.heap, y.addr, norm)
                e    == Hstack(hy, [i \in 1..Len(vs) |-> vs[i].err])
                err  == Alloc(hy, Divide(e.heap[e.addr], norm))
                mm   == Append(m, d)
            IN  Returned(err.heap, mm,
                    MultiStateDataInit(mm, Len(mm),
                        ScikitLearnData(hx.addr, y.addr, err.addr, norm)))

\* from_items(items): each (k, (x, y, err)) becomes (k, StateData(x, y, err))
FromItems(h, m, items) ==
    FromStateData(h, m,
        [i \in 1..Len(items) |->
            [key |-> items[i].key,
             value |-> StateData(items[i].value[1], items[i].value[2], items[i].value[3])]])

\* A variant of Denormalize that leaves the values normalized
\* (RoundTripReproducesStateData depends on the multiplication by norm).
DenormalizeNot(a, idx, norm) == MaskSelect(a, idx)

\* data.y[idx] * data.norm
Denormalize(a, idx, norm) == Times(MaskSelect(a, idx), norm)

\* A variant of RowsOf that matches the index column against the key's value
\* instead of its position (ViewConsistentWhenIndexed depends on the
\* positional match).
RowsOfKey(x, i, keys) == [j \in 1..Len(x) |-> x[j][1] = keys[i + 1].v]

\* idx = data.x[:,0] == i
RowsOf(x, i, keys) == [j \in 1..Len(x) |-> x[j][1] = FloatOfInt(i)]

\* multi_state_data_generator(), from the 0-based position i on: the pairs it
\* yields and the heap with the three arrays made for each.
RECURSIVE MultiStateDataGenerator(_, _, _, _)
MultiStateDataGenerator(h, data, keys, i) ==
    IF i >= Len(keys) THEN [heap |-> h, pairs |-> <<>>]
    ELSE LET idx  == RowsOf(h[data.x], i, keys)
             x    == Alloc(h, MaskSelect(Column(h[data.x], 2), idx))
             y    == Alloc(x.heap, Denormalize(h[data.y], idx, data.norm))
             err  == Alloc(y.heap, Denormalize(h[data.err], idx, data.norm))
             rest == MultiStateDataGenerator(err.heap, data, keys, i + 1)
         IN  [heap  |-> rest.heap,
              pairs |-> <<[key |-> keys[i + 1],
                           value |-> StateData(x.addr, y.addr, err.addr)]>> \o rest.pairs]

\* An optional keys argument: None, or a sequence of keys.
KeysNone == [none |-> TRUE, keys |-> <<>>]

KeysOf(keys) == [none |-> FALSE, keys |-> keys]

\* from_scikit_learn_data(data, keys=None)
FromScikitLearnData(h, m, data, keysArg) ==
    LET keys == IF keysArg.none
                THEN LET u == Unique(Column(h[data.x], 1))
                     IN  [i \in 1..Len(u) |-> FloatKey(u[i])]
                ELSE keysArg.keys
        gen  == MultiStateDataGenerator(h, data, keys, 0)
        mm   == Append(m, FrozenOrderedDictInit(gen.pairs))
    IN  Returned(gen.heap, mm, MultiStateDataInit(mm, Len(mm), data))

\* from_arrays(x, y, err, norm=1, keys=...)
DefaultNorm == 1

FromArrays(h, m, x, y, err, norm, keysArg) ==
    FromScikitLearnData(h, m, ScikitLearnData(x, y, err, norm), keysArg)

\* key(idx): self._keys_tuple[idx], a tuple subscript: positions count from
\* 0, negative ones from the end, any other is an IndexError.
Key(self, idx) ==
    LET n == Len(self._keys_tuple)
    IN  IF 0 <= idx /\ idx < n
        THEN [raised |-> "None", key |-> self._keys_tuple[idx + 1]]
        ELSE IF -n <= idx /\ idx < 0
        THEN [raised |-> "None", key |-> self._keys_tuple[n + idx + 1]]
        ELSE [raised |-> "IndexError", key |-> StrKey("")]

\* idx(key): self._state_idx_dict[key], a dict subscript
Idx(self, key) ==
    IF key \in DOMAIN self._state_idx_dict
    THEN [raised |-> "None", idx |-> self._state_idx_dict[key]]
    ELSE [raised |-> "KeyError", idx |-> 0]

\* sample(x): self._x_2d_from_1d([x]*len(self.keys))
Sample(self, x) == X2dFrom1d([i \in 1..Len(self._keys_tuple) |-> x])

\* The attributes an instance has: those __init__ sets, and those of its
\* class (the class body's names and what every class gives its instances).
InstanceAttributes == {"_dict", "_scikit", "_keys_tuple", "_state_idx_dict"}

ClassAttributes ==
    {"__init__", "odict", "arrays", "norm", "keys", "key", "idx", "_x_2d_from_1d",
     "sample", "convert_arrays", "from_items", "from_state_data", "from_arrays",
     "from_scikit_learn_data", "__doc__", "__module__", "__dict__", "__class__"}

HasAttribute(name) == name \in InstanceAttributes \cup ClassAttributes

\* convert_arrays(x, y, err): its first statement formats a string with
\* self.__name__, then it returns from_arrays(x, y, err, self.norm, keys=self.keys)
ConvertArrays(h, m, self, x, y, err) ==
    IF ~HasAttribute("__name__") THEN Raised("AttributeError", h, m)
    ELSE FromArrays(h, m, x, y, err, self._scikit.norm, KeysOf(self._keys_tuple))

\* __hash__: hash(iteritems(self._d)) is the hash of the iterator object that
\* iteritems returns, which is its identity, objectHash; it is kept in _hash.
Hash(fod, objectHash) ==
    IF fod._hash = <<>> THEN [fod EXCEPT !._hash = <<objectHash>>] ELSE fod

(* ------------------------------------------------------------------ *)
(* The caller's inputs                                                 *)
(* ------------------------------------------------------------------ *)
KeyNames == {"A", "B"}

\* One observation (x, y, err) of a state
Observations ==
    {[x |-> 1, y |-> -2, err |-> 1], [x |-> 2, y |-> 0, err |-> 0],
     [x |-> 3, y |-> 1, err |-> 2]}

FloatSeq(s) == [j \in 1..Len(s) |-> FloatOfInt(s[j])]

\* The key orders of a dataset: no state, one state, two states either way
KeyOrders == {s \in SeqsUpTo(KeyNames, Cardinality(KeyNames)) :
                 \A i, j \in 1..Len(s) : i # j => s[i] # s[j]}

\* A per-state dataset by value: a sequence of (key, x, y, err), its keys
\* distinct, with at most MaxObs observations in all
StateDataInputs ==
    UNION {{[i \in 1..Len(ko) |->
               [key |-> StrKey(ko[i]),
                x   |-> FloatSeq([j \in 1..Len(f[i]) |-> f[i][j].x]),
                y   |-> FloatSeq([j \in 1..Len(f[i]) |-> f[i][j].y]),
                err |-> FloatSeq([j \in 1..Len(f[i]) |-> f[i][j].err])]] :
            f \in {g \in [1..Len(ko) -> SeqsUpTo(Observations, MaxObs)] :
                     Len(Concat(g)) <= MaxObs}} :
           ko \in KeyOrders}

\* A flat triple by value: the rows' coordinate, value and error are set by
\* the row's position, its state index is any of IndexValues
IndexValues == {0, 1, 2}

RowX == <<5, 6, 7, 8>>

RowY == <<2, -4, 6, -8>>

RowErr == <<1, 0, 3, 2>>

FlatInputs ==
    {[x   |-> [j \in 1..Len(s) |-> <<FloatOfInt(s[j]), FloatOfInt(RowX[j])>>],
      y   |-> FloatSeq(SubSeq(RowY, 1, Len(s))),
      err |-> FloatSeq(SubSeq(RowErr, 1, Len(s)))] :
     s \in SeqsUpTo(IndexValues, MaxRows)}

NormArgs == {FloatOfInt(DefaultNorm), FloatOfInt(-2), FloatOfInt(0)}

KeysArgs ==
    {KeysNone, KeysOf(<<>>), KeysOf(<<StrKey("A")>>),
     KeysOf(<<StrKey("A"), StrKey("B")>>), KeysOf(<<StrKey("A"), StrKey("A")>>)}

\* The arguments of the queries
IdxArgs == -3..3

KeyArgs == {StrKey("A"), StrKey("B"), StrKey("Z"), FloatKey(FloatOfInt(0))}

SampleArgs == {FloatSeq(s) : s \in SeqsUpTo({4, 9}, MaxCoords)}

\* The identities an iterator object can have
ObjectHashes == {101, 102}

(* ------------------------------------------------------------------ *)
(* The state                                                           *)
(* ------------------------------------------------------------------ *)
VARIABLES
    heap,    \* the numpy arrays: heap[a] is the array at address a
    maps,    \* the FrozenOrderedDict objects
    input,   \* what the caller holds: its dataset, by reference and by value
    inst,    \* the MultiStateData instance the caller holds, or NoInstance
    call,    \* the last factory call: its arguments and outcome
    pre,     \* the heap as that call was entered
    ret,     \* the outcome of the last operation
    calls    \* factory calls that returned

vars == <<heap, maps, input, inst, call, pre, ret, calls>>

NoData == ScikitLearnData(0, 0, 0, FloatOfInt(0))

NoCall ==
    [op |-> "none", raised |-> "None", data |-> NoData, keys |-> KeysNone,
     self |-> 0, roundTrip |-> FALSE]

Ret(op, raised) ==
    [op |-> op, raised |-> raised, key |-> StrKey(""), idx |-> 0, matrix |-> <<>>,
     x |-> <<>>, map |-> 0]

\* The caller's per-state arrays, placed on the heap state by state
RECURSIVE Place(_, _)
Place(h, D) ==
    IF D = <<>> THEN [heap |-> h, pairs |-> <<>>]
    ELSE LET x    == Alloc(h, Head(D).x)
             y    == Alloc(x.heap, Head(D).y)
             err  == Alloc(y.heap, Head(D).err)
             rest == Place(err.heap, Tail(D))
         IN  [heap  |-> rest.heap,
              pairs |-> <<[key |-> Head(D).key,
                           value |-> StateData(x.addr, y.addr, err.addr)]>> \o rest.pairs]

Init ==
    /\ \/ \E D \in StateDataInputs :
            LET placed == Place(<<>>, D)
            IN  /\ heap = placed.heap
                /\ input = [kind |-> "state_data", pairs |-> placed.pairs, given |-> D,
                            x |-> 0, y |-> 0, err |-> 0]
       \/ \E F \in FlatInputs :
            /\ heap = <<F.x, F.y, F.err>>
            /\ input = [kind |-> "arrays", pairs |-> <<>>, given |-> <<>>,
                        x |-> 1, y |-> 2, err |-> 3]
    /\ maps = <<>>
    /\ inst = NoInstance
    /\ call = NoCall
    /\ pre = <<>>
    /\ ret = Ret("none", "None")
    /\ calls = 0

(* ------------------------------------------------------------------ *)
(* The operations                                                      *)
(* ------------------------------------------------------------------ *)
\* What a factory call leaves: on return the caller holds the new instance,
\* on an exception it holds what it held.
Outcome(op, r, entered, data, keysArg, isRoundTrip) ==
    /\ heap' = r.heap
    /\ maps' = r.maps
    /\ inst' = IF r.raised = "None" THEN r.inst ELSE inst
    /\ calls' = IF r.raised = "None" THEN calls + 1 ELSE calls
    /\ call' = [op |-> op, raised |-> r.raised, data |-> data, keys |-> keysArg,
                self |-> inst._dict, roundTrip |-> isRoundTrip]
    /\ pre' = entered
    /\ ret' = Ret(op, r.raised)
    /\ UNCHANGED input

\* from_state_data on the caller's dataset
from_state_data ==
    /\ input.kind = "state_data"
    /\ inst._dict = 0
    /\ Outcome("from_state_data", FromStateData(heap, maps, input.pairs), heap,
               NoData, KeysNone, FALSE)

\* from_items on the caller's dataset, given as (key, (x, y, err)) items
from_items ==
    /\ input.kind = "state_data"
    /\ inst._dict = 0
    /\ LET items == [i \in 1..Len(input.pairs) |->
                       [key |-> input.pairs[i].key,
                        value |-> <<input.pairs[i].value.x, input.pairs[i].value.y,
                                    input.pairs[i].value.err>>]]
       IN  Outcome("from_items", FromItems(heap, maps, items), heap,
                   NoData, KeysNone, FALSE)

\* from_arrays on the caller's flat triple, with a norm and keys (or none)
from_arrays ==
    /\ input.kind = "arrays"
    /\ inst._dict = 0
    /\ \E norm \in NormArgs, keysArg \in KeysArgs :
          Outcome("from_arrays",
                  FromArrays(heap, maps, input.x, input.y, input.err, norm, keysArg),
                  heap, ScikitLearnData(input.x, input.y, input.err, norm), keysArg,
                  FALSE)

\* from_scikit_learn_data on a bundle the caller makes of its flat triple
from_scikit_learn_data ==
    /\ input.kind = "arrays"
    /\ inst._dict = 0
    /\ \E norm \in NormArgs, keysArg \in KeysArgs :
          LET data == ScikitLearnData(input.x, input.y, input.err, norm)
          IN  Outcome("from_scikit_learn_data",
                      FromScikitLearnData(heap, maps, data, keysArg),
                      heap, data, keysArg, FALSE)

\* from_scikit_learn_data on the bundle of the instance the caller holds,
\* m.arrays, with that instance's keys or with none
from_scikit_learn_data_of_arrays ==
    /\ inst._dict # 0
    /\ calls < MaxCalls
    /\ \E keysArg \in {KeysNone, KeysOf(inst._keys_tuple)} :
          Outcome("from_scikit_learn_data",
                  FromScikitLearnData(heap, maps, inst._scikit, keysArg),
                  heap, inst._scikit, keysArg,
                  /\ call.op \in {"from_state_data", "from_items"}
                  /\ call.raised = "None"
                  /\ ~keysArg.none)

\* convert_arrays on the instance the caller holds, given a flat triple (here
\* the instance's own)
convert_arrays ==
    /\ inst._dict # 0
    /\ calls < MaxCalls
    /\ Outcome("convert_arrays",
               ConvertArrays(heap, maps, inst, inst._scikit.x, inst._scikit.y,
                             inst._scikit.err),
               heap,
               ScikitLearnData(inst._scikit.x, inst._scikit.y, inst._scikit.err,
                               inst._scikit.norm),
               KeysOf(inst._keys_tuple), FALSE)

\* FrozenOrderedDict(items of a map the caller holds): a second map of the
\* same entries in the same order
frozen_ordered_dict ==
    /\ Len(maps) = 1
    /\ maps' = Append(maps, FrozenOrderedDictInit(maps[1]._d))
    /\ ret' = [Ret("FrozenOrderedDict", "None") EXCEPT !.map = Len(maps) + 1]
    /\ UNCHANGED <<heap, input, inst, call, pre, calls>>

\* key(idx)
key ==
    /\ inst._dict # 0
    /\ \E idx \in IdxArgs :
          LET r == Key(inst, idx)
          IN  ret' = [Ret("key", r.raised) EXCEPT !.key = r.key, !.idx = idx]
    /\ UNCHANGED <<heap, maps, input, inst, call, pre, calls>>

\* idx(key)
idx ==
    /\ inst._dict # 0
    /\ \E k \in KeyArgs :
          LET r == Idx(inst, k)
          IN  ret' = [Ret("idx", r.raised) EXCEPT !.key = k, !.idx = r.idx]
    /\ UNCHANGED <<heap, maps, input, inst, call, pre, calls>>

\* sample(x)
sample ==
    /\ inst._dict # 0
    /\ \E x \in SampleArgs :
          LET r == Sample(inst, x)
          IN  ret' = [Ret("sample", r.raised) EXCEPT !.matrix = r.value, !.x = x]
    /\ UNCHANGED <<heap, maps, input, inst, call, pre, calls>>

\* hash(map), for a map the caller holds
hash ==
    /\ \E i \in 1..Len(maps), objectHash \in ObjectHashes :
          /\ maps' = [maps EXCEPT ![i] = Hash(maps[i], objectHash)]
          /\ ret' = [Ret("hash", "None") EXCEPT !.map = i, !.idx = maps'[i]._hash[1]]
    /\ UNCHANGED <<heap, input, inst, call, pre, calls>>

\* The factories on the caller's own data
Build ==
    \/ from_state_data
    \/ from_items
    \/ from_arrays
    \/ from_scikit_learn_data

\* Construction and conversion
NextConvert ==
    \/ Build
    \/ from_scikit_learn_data_of_arrays
    \/ convert_arrays

\* Construction, then the queries of an instance
NextQuery ==
    \/ Build
    \/ key
    \/ idx
    \/ sample

\* Construction, then hashing of the named maps
NextHash ==
    \/ Build
    \/ frozen_ordered_dict
    \/ hash

Next ==
    \/ NextConvert
    \/ NextQuery
    \/ NextHash

\* Every operation, in any order
Spec == Init /\ [][Next]_vars

\* The same, restricted to the operations named
SpecConvert == Init /\ [][NextConvert]_vars

SpecQuery == Init /\ [][NextQuery]_vars

SpecHash == Init /\ [][NextHash]_vars

(* ------------------------------------------------------------------ *)
(* Properties                                                          *)
(* ------------------------------------------------------------------ *)
\* The last factory call returned: inst is the instance it returned.
HasReturned == call.op # "none" /\ call.raised = "None"

FromStates == call.op \in {"from_state_data", "from_items"}

FromFlat == call.op \in {"from_arrays", "from_scikit_learn_data"}

NamedMap == maps[inst._dict]

\* The caller's dataset: its keys, and all its values in key order
GivenKeys == [i \in 1..Len(input.given) |-> input.given[i].key]

GivenY == Concat([i \in 1..Len(input.given) |-> input.given[i].y])

GivenErr == Concat([i \in 1..Len(input.given) |-> input.given[i].err])

\* C1 (round trip): when from_scikit_learn_data is given the bundle of an
\* instance that from_state_data (or from_items) built of the dataset D, and
\* D's keys, the named map of the instance it returns has D's keys in D's
\* order, and under each key the x, y and err that D has under it.
RoundTripReproducesStateData ==
    (call.roundTrip /\ call.raised = "None") =>
        /\ Keys(NamedMap) = GivenKeys
        /\ inst._keys_tuple = GivenKeys
        /\ \A i \in 1..Len(input.given) :
              LET rec == GetItem(NamedMap, input.given[i].key)
              IN  /\ heap[rec.x] = input.given[i].x
                  /\ heap[rec.y] = input.given[i].y
                  /\ heap[rec.err] = input.given[i].err

\* A round trip of two states, one of them without observations, under a
\* norm that is an irrational standard deviation
RoundTripWitness ==
    /\ call.roundTrip
    /\ call.raised = "None"
    /\ Len(input.given) = 2
    /\ \E i \in 1..2 : input.given[i].y = <<>>
    /\ inst._scikit.norm.r # 1

\* C2 (positivity): the instance a factory returns has norm > 0.
NormPositive == HasReturned => IsPositive(inst._scikit.norm)

\* C3 (carry-over): convert_arrays returns, and the instance it returns has
\* the norm and the keys of the instance it was called on.
ConvertArraysCarriesOver ==
    (call.op = "convert_arrays") =>
        /\ call.raised = "None"
        /\ inst._scikit.norm = call.data.norm
        /\ inst._keys_tuple = call.keys.keys

\* The rows of the flat bundle before those of the state at position i
RECURSIVE Offset(_)
Offset(i) == IF i <= 1 THEN 0 ELSE Offset(i - 1) + Len(heap[Values(NamedMap)[i - 1].x])

\* The flat bundle is the flattening of the named map: state after state in
\* key order, each row's index the state's position, y and err divided by norm
ViewConsistent ==
    LET n     == Len(NamedMap._d)
        rec   == Values(NamedMap)
        flat  == inst._scikit
        total == Offset(n + 1)
    IN  /\ Len(heap[flat.x]) = total
        /\ Len(heap[flat.y]) = total
        /\ Len(heap[flat.err]) = total
        /\ \A i \in 1..n :
              /\ Len(heap[rec[i].y]) = Len(heap[rec[i].x])
              /\ Len(heap[rec[i].err]) = Len(heap[rec[i].x])
              /\ inst._keys_tuple[i] = NamedMap._d[i].key
              /\ \A j \in 1..Len(heap[rec[i].x]) :
                    /\ heap[flat.x][Offset(i) + j] = <<FloatOfInt(i - 1), heap[rec[i].x][j]>>
                    /\ heap[flat.y][Offset(i) + j] = FDiv(heap[rec[i].y][j], flat.norm)
                    /\ heap[flat.err][Offset(i) + j] = FDiv(heap[rec[i].err][j], flat.norm)

\* C4 as claimed (view consistency): the bundle of every instance a factory
\* returns is the flattening of its named map.
ViewConsistentAlways == HasReturned => ViewConsistent

\* The flat triple given to from_arrays / from_scikit_learn_data is indexed by
\* position: its keys (when given) are distinct, its index column holds only
\* 0 .. len(keys)-1 and does not decrease from row to row, and its norm is
\* not zero.
WellIndexed ==
    LET col == Column(pre[call.data.x], 1)
        n   == Len(inst._keys_tuple)
    IN  /\ call.keys.none \/ Len(call.keys.keys) = n
        /\ \A j \in 1..Len(col) : \E i \in 0..(n - 1) : col[j] = FloatOfInt(i)
        /\ \A j, k \in 1..Len(col) : j < k => ~FLess(col[k], col[j])
        /\ ~IsZero(call.data.norm)

\* C4 as amended: the bundle is the flattening of the named map for an
\* instance built from per-state records, and for one built from a flat
\* triple that is indexed by position.
ViewConsistentWhenIndexed ==
    (HasReturned /\ (FromStates \/ (FromFlat /\ WellIndexed))) => ViewConsistent

\* An instance of two states built from a flat triple whose rows are both
\* states', in order
ViewConsistentWitness ==
    /\ HasReturned
    /\ call.op = "from_arrays"
    /\ WellIndexed
    /\ Len(inst._keys_tuple) = 2
    /\ Column(heap[inst._scikit.x], 1) = <<FloatOfInt(0), FloatOfInt(1)>>
    /\ inst._scikit.norm = FloatOfInt(-2)

\* C5 (empty-input failure): from_state_data / from_items on a dataset with no
\* observation at all raise the empty-data error (a ValueError), and no
\* factory returns an instance that holds no observation.
EmptyInputFails ==
    /\ (FromStates /\ GivenY = <<>>) => call.raised = "ValueError"
    /\ HasReturned => Len(heap[inst._scikit.y]) > 0

InputsUnchanged ==
    /\ (call.op # "none") => \A a \in 1..Len(pre) : heap[a] = pre[a]
    /\ (FromStates /\ HasReturned) =>
          /\ NamedMap._d = input.pairs
          /\ \A i \in 1..Len(input.given) :
                /\ heap[input.pairs[i].value.x] = input.given[i].x
                /\ heap[input.pairs[i].value.y] = input.given[i].y
                /\ heap[input.pairs[i].value.err] = input.given[i].err
    /\ (FromFlat /\ HasReturned) => inst._scikit = call.data

\* One state only, normalized by a norm other than 1
InputsUnchangedWitness ==
    /\ FromStates
    /\ HasReturned
    /\ Len(input.given) = 1
    /\ Len(GivenY) = 3
    /\ inst._scikit.norm # FloatOfInt(1)

\* sample returned a matrix of one row (i, x[j]) for every state position i,
\* in key order, and every position j of the coordinates x, state by state
SampleMatrix ==
    LET n == Len(inst._keys_tuple)
        L == Len(ret.x)
    IN  /\ ret.raised = "None"
        /\ Len(ret.matrix) = n * L
        /\ \A i \in 0..(n - 1), j \in 1..L :
              ret.matrix[i * L + j] = <<FloatOfInt(i), ret.x[j]>>

\* C6 as claimed (sample layout): on every instance, sample(coords) returns
\* the matrix of numStates * len(coords) rows (i, coords[j]), and leaves the
\* instance as it was.
SampleLayout ==
    [][(ret'.op = "sample" /\ ret' # ret) =>
          (SampleMatrix' /\ inst' = inst /\ heap' = heap /\ maps' = maps)]_vars

\* C6 as amended: the same, on every instance that has at least one state;
\* on an instance without states sample raises ValueError.
SampleLayoutOfStates ==
    [][(ret'.op = "sample" /\ ret' # ret) =>
          /\ IF Len(inst._keys_tuple) >= 1 THEN SampleMatrix'
                                            ELSE ret'.raised = "ValueError"
          /\ inst' = inst /\ heap' = heap /\ maps' = maps]_vars

\* A sample of two coordinates on an instance of two states
SampleWitness ==
    /\ ret.op = "sample"
    /\ ret.raised = "None"
    /\ Len(inst._keys_tuple) = 2
    /\ Len(ret.x) = 2
    /\ ret.x[1] # ret.x[2]
    /\ Len(ret.matrix) = 4

\* C7 (index domain): key(i) returns a key k with idx(k) = i when
\* 0 <= i < numStates and signals not-found for every other i; idx(k) returns
\* an i with key(i) = k when k is a key of the instance and signals not-found
\* for every other k.
IndexDomain ==
    LET n == Len(inst._keys_tuple)
    IN  /\ (ret.op = "key") =>
              IF 0 <= ret.idx /\ ret.idx < n
              THEN /\ ret.raised = "None"
                   /\ Idx(inst, ret.key) = [raised |-> "None", idx |-> ret.idx]
              ELSE ret.raised # "None"
        /\ (ret.op = "idx") =>
              IF \E i \in 1..n : inst._keys_tuple[i] = ret.key
              THEN /\ ret.raised = "None"
                   /\ 0 <= ret.idx /\ ret.idx < n
                   /\ Key(inst, ret.idx) = [raised |-> "None", key |-> ret.key]
              ELSE ret.raised # "None"

\* Every value of a named map is a StateData of numpy arrays, and a tuple
\* that holds a numpy array cannot be hashed.
HoldsUnhashable(fod) == fod._d # <<>>

\* C8 (structural hash): the hash is that of the entries: hashing a map again
\* returns the hash it keeps, two maps of the same entries in the same order
\* have the same hash, and a map holding an unhashable value never gets one.
StructuralHash ==
    /\ (ret.op = "hash") => maps[ret.map]._hash = <<ret.idx>>
    /\ \A i, j \in 1..Len(maps) :
          (maps[i]._d = maps[j]._d /\ maps[i]._hash # <<>> /\ maps[j]._hash # <<>>)
              => maps[i]._hash = maps[j]._hash
    /\ \A i \in 1..Len(maps) : HoldsUnhashable(maps[i]) => maps[i]._hash = <<>>

====
